---- MODULE Spec2Model ----
(***************************************************************************)
(* artudis-oadoi-report: a batch of newline-delimited JSON publication     *)
(* files is enriched through the oaDOI API and written as CSV on stdout.   *)
(*                                                                         *)
(* main() calls processFile for each file in turn.  processFile launches   *)
(* one goroutine (processPublication) per scanned line, then one writer    *)
(* goroutine (processOutput), waits for the line goroutines, closes the    *)
(* channels and waits for the writer.  doAPIRequest is gated by the        *)
(* buffered channel ticketToHTTP, filled with *httplimit tickets.          *)
(*                                                                         *)
(* Two revisions of main.go are in the repository and are both modelled;   *)
(* the variable rev selects the one that runs:                             *)
(*   "main.go"  - the outer sync.WaitGroup waitgroupFiles, the default     *)
(*                bufio.Scanner buffer, no check of fileScanner.Err()      *)
(*   "part_001" - no outer WaitGroup, a 32 MiB scanner buffer,             *)
(*                log.Fatalln on fileScanner.Err(), makeSherpaLink         *)
(***************************************************************************)
EXTENDS Integers, Sequences, FiniteSets, TLC

\* ------------------------------------------------------------------ bounds
MaxFiles == 2      \* files named on the command line
MaxLines == 2      \* lines scanned over the whole batch
MaxIds   == 2      \* identifiers of one publication
MaxN     == 2      \* largest value given to -httplimit
MaxSegs  == 2      \* comma-separated segments of a journal_issns string
MaxSegLen == 9     \* characters of one segment
MaxAtt   == 2      \* attachments of one publication

VARIABLES
    rev,             \* the revision that runs
    httplimit,       \* *httplimit
    files,           \* filesToProcess: for each file, whether os.Open succeeds
    fileIdx,         \* position of main's loop over filesToProcess
    mainpc,          \* where the main goroutine is
    waitgroupFiles,  \* counter of main's waitgroupFiles (main.go only)
    linesRead,       \* lines scanned so far over the batch
    scanErr,         \* fileScanner.Err() after the scan loop
    ticketToHTTP,    \* the buffered ticket channel of the file being processed
    output,          \* the unbuffered results channel: "none", "open", "closed"
    waitgroupLines,  \* counter of waitgroupLines
    waitgroupOutput, \* counter of waitgroupOutput
    units,           \* the processPublication goroutines of the file
    wpc,             \* where the processOutput goroutine is
    wrec,            \* the Record the writer received last (NoRecord: none)
    wi,              \* index of the next APIResponse the writer will write
    wErr,            \* the csv.Writer's sticky error
    stdout,          \* rows accepted by csv.Writer.Write, in order
    issns,           \* the argument of a call of makeSherpaLink
    link,            \* what makeSherpaLink(issns) returned
    relink,          \* what makeSherpaLink returned, given link
    again,           \* what a second makeSherpaLink(issns) returned
    attachment,      \* record.Attachment of the record the writer looks at
    ai,              \* attachments the writer's loop has gone through
    artudisOA,       \* processOutput's artudisOA
    highestLevel     \* processOutput's highestLevel

vars == <<rev, httplimit, files, fileIdx, mainpc, waitgroupFiles, linesRead,
          scanErr, ticketToHTTP, output, waitgroupLines, waitgroupOutput,
          units, wpc, wrec, wi, wErr, stdout, issns, link, relink, again,
          attachment, ai, artudisOA, highestLevel>>

linkVars == <<issns, link, relink, again>>

attVars == <<attachment, ai, artudisOA, highestLevel>>

pipelineVars == <<rev, httplimit, files, fileIdx, mainpc, waitgroupFiles,
                  linesRead, scanErr, ticketToHTTP, output, waitgroupLines,
                  waitgroupOutput, units, wpc, wrec, wi, wErr, stdout>>

mainVars == <<rev, httplimit, files, fileIdx, mainpc, waitgroupFiles,
              linesRead, scanErr>>

Revisions == {"main.go", "part_001"}

\* ------------------------------------------------------------- data types
Schemes == {"doi", "issn"}

SeqsUpTo(S, n) == UNION {[1..k -> S] : k \in 0..n}

\* A scanned line: whether json.Unmarshal accepts it, and its identifiers.
LineInputs ==
    {[json |-> FALSE, ids |-> <<>>]}
        \cup {[json |-> TRUE, ids |-> s] : s \in SeqsUpTo(Schemes, MaxIds)}

\* What bufio.Scanner meets next: a line of some size, the end of the file,
\* or a read error.  Sizes: "small" <= 64 KiB < "large" <= 32 MiB < "huge".
LineSizes == {"small", "large", "huge"}

\* A ticket channel that has not been made.
NoChan == [cap |-> 0, len |-> 0, closed |-> FALSE, made |-> FALSE]

\* var apiResponse APIResponse
ZeroAPIResponse ==
    [HTTPStatus |-> "", Body |-> "zero", JSONDecodeError |-> "", GETError |-> ""]

\* What the network does to one http.Get and the decoding of its body.
NetOutcomes ==
    { [getErr |-> "dial tcp: i/o timeout", status |-> "", decErr |-> "", decoded |-> "zero"],
      [getErr |-> "", status |-> "200 OK", decErr |-> "", decoded |-> "full"],
      [getErr |-> "", status |-> "404 Not Found", decErr |-> "invalid character '<'", decoded |-> "zero"],
      [getErr |-> "", status |-> "200 OK", decErr |-> "json: cannot unmarshal string into Go struct field", decoded |-> "partial"] }

\* ---------------------------------------------------------- doAPIRequest
\* doAPIRequest without its "return apiResponse" after a failed http.Get:
\* the decode error is recorded as well.
doAPIRequestNoEarlyReturn(net) ==
    IF net.getErr # ""
    THEN [ZeroAPIResponse EXCEPT !.GETError = net.getErr,
                                 !.JSONDecodeError = "EOF"]
    ELSE LET decodedInto == [ZeroAPIResponse EXCEPT !.HTTPStatus = net.status,
                                                    !.Body = net.decoded]
         IN  IF net.decErr # ""
             THEN [decodedInto EXCEPT !.JSONDecodeError = net.decErr]
             ELSE decodedInto

\* The APIResponse doAPIRequest returns for a given behaviour of the network.
doAPIRequestResult(net) ==
    IF net.getErr # ""
    THEN [ZeroAPIResponse EXCEPT !.GETError = net.getErr]
    ELSE LET withStatus == [ZeroAPIResponse EXCEPT !.HTTPStatus = net.status]
             decodedInto == [withStatus EXCEPT !.Body = net.decoded]
         IN  IF net.decErr # ""
             THEN [decodedInto EXCEPT !.JSONDecodeError = net.decErr]
             ELSE decodedInto

\* doAPIRequest without its deferred send: the ticket stays with the
\* goroutine, which goes on to "output <- record" with it.
TicketKept(ch, res) == ch

\* <-ticketToHTTP
TicketReceive(ch) == [ch EXCEPT !.len = ch.len - 1]

\* The ticket sent back at the end of the function body instead of in a
\* defer: the return on a decode error keeps it.
TicketSendUnlessDecodeError(ch, res) ==
    IF res.JSONDecodeError # "" THEN ch ELSE [ch EXCEPT !.len = ch.len + 1]

\* defer func() { ticketToHTTP <- true }(): runs on every return of doAPIRequest
DeferredTicketSend(ch, res) == [ch EXCEPT !.len = ch.len + 1]

\* --------------------------------------------------- processPublication
\* The range loop without its test of identifier.Scheme.
NextIdentifier(ids, i) == i + 1

\* Index of the first identifier after position i whose scheme is "doi",
\* or Len(ids) + 1 when the range loop is over.
NextDoi(ids, i) ==
    LET later == {j \in (i + 1)..Len(ids) : ids[j] = "doi"}
    IN  IF later = {} THEN Len(ids) + 1
        ELSE CHOOSE j \in later : \A k \in later : j <= k

\* The range loop going two identifiers on at a time.
AfterIdentifierSkipsOne(u, i) ==
    LET j == NextDoi(u.ids, i + 1)
    IN  IF j <= Len(u.ids)
        THEN [u EXCEPT !.i = j, !.pc = "acquire"]
        ELSE [u EXCEPT !.i = j, !.pc = "publish"]

\* Where the unit is after looking at identifier i: blocked on the next
\* ticket, or at "output <- record".
AfterIdentifier(u, i) ==
    LET j == NextDoi(u.ids, i)
    IN  IF j <= Len(u.ids)
        THEN [u EXCEPT !.i = j, !.pc = "acquire"]
        ELSE [u EXCEPT !.i = j, !.pc = "publish"]

\* The goroutine has returned: its record is no longer its own.
Returned(u) == [u EXCEPT !.pc = "done", !.APIResponses = <<>>]

\* The Record as it was before the loop over the identifiers.
RecordBeforeLookups(l, u) == [line |-> l, ids |-> u.ids, APIResponses |-> <<>>]

\* The Record sent on the output channel: the Publication of line l and the
\* APIResponses appended to it.
RecordOf(l, u) == [line |-> l, ids |-> u.ids, APIResponses |-> u.APIResponses]

NoRecord == [line |-> 0, ids |-> <<>>, APIResponses |-> <<>>]

\* What doAPIRequest(identifier.Value, ticketToHTTP) returned for the i-th
\* identifier of the record.
ResponseFor(i, res) == res @@ [call |-> i]

Alive == mainpc \notin {"exit", "fatal"}

\* processPublication without the "return" after a failed json.Unmarshal:
\* the zero record goes on to be published.
UnmarshalErrIgnored(u) ==
    /\ Alive
    /\ u \in DOMAIN units
    /\ units[u].pc = "start"
    /\ units' = [units EXCEPT ![u] = AfterIdentifier(units[u], 0)]
    /\ UNCHANGED <<linkVars, attVars, mainVars, ticketToHTTP, output, waitgroupLines,
                   waitgroupOutput, wpc, wrec, wi, wErr, stdout>>

\* err := json.Unmarshal(publicationBytes, &record.Publication) and the
\* start of the loop over the identifiers; on an error, log, return, and the
\* deferred waitgroupLines.Done()
Unmarshal(u) ==
    /\ Alive
    /\ u \in DOMAIN units
    /\ units[u].pc = "start"
    /\ IF units[u].json
       THEN /\ units' = [units EXCEPT ![u] = AfterIdentifier(units[u], 0)]
            /\ UNCHANGED waitgroupLines
       ELSE /\ units' = [units EXCEPT ![u] = Returned(units[u])]
            /\ waitgroupLines' = waitgroupLines - 1
    /\ UNCHANGED <<linkVars, attVars, mainVars, ticketToHTTP, output, waitgroupOutput,
                   wpc, wrec, wi, wErr, stdout>>

AcquireTicket(u) ==
    /\ Alive
    /\ u \in DOMAIN units
    /\ units[u].pc = "acquire"
    /\ ticketToHTTP.made /\ ~ticketToHTTP.closed
    /\ ticketToHTTP.len > 0
    /\ ticketToHTTP' = TicketReceive(ticketToHTTP)
    /\ units' = [units EXCEPT ![u].pc = "get"]
    /\ UNCHANGED <<linkVars, attVars, mainVars, output, waitgroupLines, waitgroupOutput,
                   wpc, wrec, wi, wErr, stdout>>

APIRequestReturns(u, net) ==
    /\ Alive
    /\ u \in DOMAIN units
    /\ units[u].pc = "get"
    /\ ticketToHTTP.len < ticketToHTTP.cap
    /\ LET res == doAPIRequestResult(net)
           appended == [units[u] EXCEPT !.APIResponses =
                                          Append(@, ResponseFor(units[u].i, res))]
       IN  /\ ticketToHTTP' = DeferredTicketSend(ticketToHTTP, res)
           /\ units' = [units EXCEPT ![u] = AfterIdentifier(appended, units[u].i)]
    /\ UNCHANGED <<linkVars, attVars, mainVars, output, waitgroupLines, waitgroupOutput,
                   wpc, wrec, wi, wErr, stdout>>

\* "output <- record" meets "for record := range output": the channel is
\* unbuffered, so the send completes only together with the writer's receive.
Publish(u) ==
    /\ Alive
    /\ u \in DOMAIN units
    /\ units[u].pc = "publish"
    /\ output = "open"
    /\ wpc = "range"
    /\ units' = [units EXCEPT ![u] = Returned(units[u])]
    /\ waitgroupLines' = waitgroupLines - 1
    /\ wrec' = RecordOf(u, units[u])
    /\ wi' = 1
    /\ wpc' = IF units[u].APIResponses = <<>> THEN "range" ELSE "row"
    /\ UNCHANGED <<linkVars, attVars, mainVars, ticketToHTTP, output, waitgroupOutput, wErr, stdout>>

\* ---------------------------------------------------------- processOutput
\* The rows of the CSV stream, by what they are about: the header, or the
\* k-th APIResponse of the record of line l of file f.
HeaderRow(f) == [kind |-> "header", file |-> f, line |-> 0, idx |-> 0]

\* The row of the first APIResponse, whatever the one the loop is at.
DataRowOfFirst(f, l, k) == [kind |-> "data", file |-> f, line |-> l, idx |-> 1]

DataRow(f, l, k) == [kind |-> "data", file |-> f, line |-> l, idx |-> k]

\* err := w.Write(header): the error is not looked at, but stays in the writer
WriteHeader(fails) ==
    /\ Alive
    /\ wpc = "header"
    /\ wErr' = fails
    /\ stdout' = IF fails THEN stdout ELSE Append(stdout, HeaderRow(fileIdx))
    /\ wpc' = "range"
    /\ UNCHANGED <<linkVars, attVars, mainVars, ticketToHTTP, output, waitgroupLines,
                   waitgroupOutput, units, wrec, wi>>

\* Whether the loop over record.APIResponses goes on after a Write.
RowLoopGoesOn(err) == ~err

\* err := w.Write(toCSVOutput); if err != nil { log; return }
WriteRow(fails) ==
    /\ Alive
    /\ wpc = "row"
    /\ LET err == wErr \/ fails
           rs  == wrec.APIResponses
       IN  /\ wErr' = err
           /\ IF RowLoopGoesOn(err)
              THEN /\ stdout' = IF err THEN stdout
                                ELSE Append(stdout, DataRow(fileIdx, wrec.line, wi))
                   /\ IF wi < Len(rs)
                      THEN wi' = wi + 1 /\ wpc' = "row"
                      ELSE wi' = 0 /\ wpc' = "range"
                   /\ UNCHANGED <<waitgroupOutput, wrec>>
              ELSE /\ wpc' = "done"
                   /\ waitgroupOutput' = waitgroupOutput - 1
                   /\ UNCHANGED <<stdout, wrec, wi>>
    /\ UNCHANGED <<linkVars, attVars, mainVars, ticketToHTTP, output, waitgroupLines, units>>

\* A writer that leaves its loop as soon as no record is there to receive.
RangeOverWhenIdle(ch) == TRUE

\* "for record := range output" ends only when the channel is closed
RangeOver(ch) == ch = "closed"

\* The range loop ends on the closed channel; w.Flush(); w.Error() is logged.
RangeEnds(fails) ==
    /\ Alive
    /\ wpc = "range"
    /\ RangeOver(output)
    /\ wErr' = (wErr \/ fails)
    /\ wpc' = "done"
    /\ waitgroupOutput' = waitgroupOutput - 1
    /\ UNCHANGED <<linkVars, attVars, mainVars, ticketToHTTP, output, waitgroupLines, units,
                   wrec, wi, stdout>>

\* ------------------------------------------------------- main, processFile
HasOuterWaitGroup == rev = "main.go"

\* for _, fileName := range filesToProcess { waitgroupFiles.Add(1); processFile(...) }
CallProcessFile ==
    /\ mainpc = "main"
    /\ fileIdx <= Len(files)
    /\ waitgroupFiles' = IF HasOuterWaitGroup THEN waitgroupFiles + 1 ELSE waitgroupFiles
    /\ mainpc' = "open"
    /\ UNCHANGED <<linkVars, attVars, rev, httplimit, files, fileIdx, linesRead, scanErr,
                   ticketToHTTP, output, waitgroupLines, waitgroupOutput,
                   units, wpc, wrec, wi, wErr, stdout>>

\* processFile without its "defer waitgroupFiles.Done()".
FilesDoneForgotten(n) == n

\* waitgroupFiles.Done(), deferred in processFile (main.go)
FilesDone(n) == IF HasOuterWaitGroup THEN n - 1 ELSE n

\* A channel of one ticket more than *httplimit.
MakeTicketsOneTooMany(n) == [cap |-> n + 1, len |-> n + 1, closed |-> FALSE, made |-> TRUE]

\* make(chan bool, *httplimit) and the loop that fills it
MakeTickets(n) == [cap |-> n, len |-> n, closed |-> FALSE, made |-> TRUE]

\* file, err := os.Open(fileName); if err != nil { log; return }
OpenFile ==
    /\ mainpc = "open"
    /\ IF files[fileIdx]
       THEN /\ output' = "open"
            /\ ticketToHTTP' = MakeTickets(httplimit)
            /\ mainpc' = "scan"
            /\ UNCHANGED <<fileIdx, waitgroupFiles>>
       ELSE /\ waitgroupFiles' = FilesDone(waitgroupFiles)
            /\ fileIdx' = fileIdx + 1
            /\ mainpc' = "main"
            /\ UNCHANGED <<output, ticketToHTTP>>
    /\ UNCHANGED <<linkVars, attVars, rev, httplimit, files, linesRead, scanErr, waitgroupLines,
                   waitgroupOutput, units, wpc, wrec, wi, wErr, stdout>>

\* The longest token fileScanner accepts: bufio.MaxScanTokenSize (64 KiB) by
\* default, 32 MiB after fileScanner.Buffer(buf, 1024*1024*32).
TooLong(size) ==
    IF rev = "part_001" THEN size = "huge" ELSE size \in {"large", "huge"}

DoiCount(ids) == Cardinality({j \in 1..Len(ids) : ids[j] = "doi"})

NewUnit(line) == [pc |-> "start", json |-> line.json, ids |-> line.ids,
                  i |-> 0, APIResponses |-> <<>>]

\* fileScanner.Scan() returns true: waitgroupLines.Add(1); go processPublication
ScanLine(line, size) ==
    /\ mainpc = "scan"
    /\ linesRead < MaxLines
    /\ ~TooLong(size)
    /\ linesRead' = linesRead + 1
    /\ waitgroupLines' = waitgroupLines + 1
    /\ units' = Append(units, NewUnit(line))
    /\ UNCHANGED <<linkVars, attVars, rev, httplimit, files, fileIdx, mainpc, waitgroupFiles,
                   scanErr, ticketToHTTP, output, waitgroupOutput, wpc, wrec,
                   wi, wErr, stdout>>

\* err = fileScanner.Err(); if err != nil { log.Fatalln(err) }  (part_001)
FatalOnScanErr(err) == rev = "part_001" /\ err # "nil"

\* fileScanner.Err() once Scan() has returned false: nil at the end of the
\* file, bufio.ErrTooLong ("toolong"), or the error of the read ("ioerr")
ScannerErr(stop) == IF stop = "eof" THEN "nil" ELSE stop

\* fileScanner.Scan() returns false, at the end of the file (stop = "eof"),
\* on a read error ("ioerr") or on a line longer than the buffer allows
\* ("toolong"); then the writer is started, unless the run is aborted.
ScanStops(stop, size) ==
    /\ mainpc = "scan"
    /\ stop = "toolong" => TooLong(size)
    /\ scanErr' = ScannerErr(stop)
    /\ IF FatalOnScanErr(ScannerErr(stop))
       THEN /\ mainpc' = "fatal"
            /\ UNCHANGED <<waitgroupOutput, wpc>>
       ELSE /\ waitgroupOutput' = waitgroupOutput + 1
            /\ wpc' = "header"
            /\ mainpc' = "waitLines"
    /\ UNCHANGED <<linkVars, attVars, rev, httplimit, files, fileIdx, waitgroupFiles, linesRead,
                   ticketToHTTP, output, waitgroupLines, units, wrec, wi,
                   wErr, stdout>>

\* processFile goes on to the two close calls without waiting for the
\* goroutines of the lines.
LinesNotWaitedFor(n) == TRUE

\* waitgroupLines.Wait() returns
LinesWaitedFor(n) == n = 0

\* waitgroupLines.Wait() returns; close(output); close(ticketToHTTP)
CloseChannels ==
    /\ mainpc = "waitLines"
    /\ LinesWaitedFor(waitgroupLines)
    /\ output' = "closed"
    /\ ticketToHTTP' = [ticketToHTTP EXCEPT !.closed = TRUE]
    /\ mainpc' = "waitOutput"
    /\ UNCHANGED <<linkVars, attVars, rev, httplimit, files, fileIdx, waitgroupFiles, linesRead,
                   scanErr, waitgroupLines, waitgroupOutput, units, wpc, wrec,
                   wi, wErr, stdout>>

\* waitgroupOutput.Wait() returns and processFile returns: its goroutines
\* have ended and its channels are garbage.
ProcessFileReturns ==
    /\ mainpc = "waitOutput"
    /\ waitgroupOutput = 0
    /\ waitgroupFiles' = FilesDone(waitgroupFiles)
    /\ fileIdx' = fileIdx + 1
    /\ mainpc' = "main"
    /\ scanErr' = "nil"
    /\ ticketToHTTP' = NoChan
    /\ output' = "none"
    /\ units' = <<>>
    /\ wpc' = "none"
    /\ wrec' = NoRecord
    /\ wi' = 0
    /\ wErr' = FALSE
    /\ UNCHANGED <<linkVars, attVars, rev, httplimit, files, linesRead, waitgroupLines,
                   waitgroupOutput, stdout>>

\* waitgroupFiles.Wait() (main.go) and the return of main
MainReturns ==
    /\ mainpc = "main"
    /\ fileIdx > Len(files)
    /\ waitgroupFiles = 0
    /\ mainpc' = "exit"
    /\ UNCHANGED <<linkVars, attVars, rev, httplimit, files, fileIdx, waitgroupFiles, linesRead,
                   scanErr, ticketToHTTP, output, waitgroupLines,
                   waitgroupOutput, units, wpc, wrec, wi, wErr, stdout>>

\* -------------------------------------------------------- makeSherpaLink
\* Strings are sequences of one-character strings.

\* const SHERPAURI string = "http://www.sherpa.ac.uk/romeo/issn/"
SHERPAURI ==
    <<"h", "t", "t", "p", ":", "/", "/", "w", "w", "w", ".", "s",
       "h", "e", "r", "p", "a", ".", "a", "c", ".", "u", "k", "/",
       "r", "o", "m", "e", "o", "/", "i", "s", "s", "n", "/">>

Min(S) == CHOOSE x \in S : \A y \in S : x <= y

\* strings.Split(s, sep): the text between the separators, the empty ones too
RECURSIVE Split(_, _)
Split(s, sep) ==
    LET hits == {i \in 1..Len(s) : s[i] = sep}
    IN  IF hits = {} THEN <<s>>
        ELSE <<SubSeq(s, 1, Min(hits) - 1)>>
                 \o Split(SubSeq(s, Min(hits) + 1, Len(s)), sep)

\* strings.Join(elems, sep)
RECURSIVE Join(_, _)
Join(elems, sep) ==
    IF elems = <<>> THEN <<>>
    ELSE IF Len(elems) = 1 THEN elems[1]
    ELSE elems[1] \o <<sep>> \o Join(Tail(elems), sep)

\* s[i] with Go's zero-based index i is in range
IndexInRange(s, i) == i < Len(s)

\* The loop body with the 8-character ISSN used as it is, not repaired.
rangeBodyNoRepair(sherpaLinks, issn) ==
    IF issn = <<>>
    THEN [panic |-> FALSE, links |-> sherpaLinks]
    ELSE IF ~IndexInRange(issn, 4)
    THEN [panic |-> TRUE, links |-> sherpaLinks]
    ELSE IF (issn[5] = "-" /\ Len(issn) = 9) \/ Len(issn) = 8
    THEN [panic |-> FALSE,
          links |-> Append(sherpaLinks, SHERPAURI \o issn \o <<"/">>)]
    ELSE [panic |-> FALSE, links |-> sherpaLinks]

\* The loop body appending the hyphenated ISSN itself instead of its link.
rangeBodyAppendsIssn(sherpaLinks, issn) ==
    IF issn = <<>>
    THEN [panic |-> FALSE, links |-> sherpaLinks]
    ELSE IF ~IndexInRange(issn, 4)
    THEN [panic |-> TRUE, links |-> sherpaLinks]
    ELSE IF issn[5] = "-" /\ Len(issn) = 9
    THEN [panic |-> FALSE, links |-> Append(sherpaLinks, issn)]
    ELSE IF Len(issn) = 8
    THEN LET repaired == SubSeq(issn, 1, 4) \o <<"-">> \o SubSeq(issn, 5, 8)
         IN  [panic |-> FALSE,
              links |-> Append(sherpaLinks, SHERPAURI \o repaired \o <<"/">>)]
    ELSE [panic |-> FALSE, links |-> sherpaLinks]

\* One pass of "for _, issn := range(issnsSplit)": the new sherpaLinks, or
\* the index fault of issn[4].
rangeBody(sherpaLinks, issn) ==
    IF issn = <<>>
    THEN [panic |-> FALSE, links |-> sherpaLinks]
    ELSE IF ~IndexInRange(issn, 4)
    THEN [panic |-> TRUE, links |-> sherpaLinks]
    ELSE IF issn[5] = "-" /\ Len(issn) = 9
    THEN [panic |-> FALSE,
          links |-> Append(sherpaLinks, SHERPAURI \o issn \o <<"/">>)]
    ELSE IF Len(issn) = 8
    THEN LET repaired == SubSeq(issn, 1, 4) \o <<"-">> \o SubSeq(issn, 5, 8)
         IN  [panic |-> FALSE,
              links |-> Append(sherpaLinks, SHERPAURI \o repaired \o <<"/">>)]
    ELSE [panic |-> FALSE, links |-> sherpaLinks]

RECURSIVE rangeIssns(_, _)
rangeIssns(sherpaLinks, issnsSplit) ==
    IF issnsSplit = <<>> THEN [panic |-> FALSE, links |-> sherpaLinks]
    ELSE LET r == rangeBody(sherpaLinks, Head(issnsSplit))
         IN  IF r.panic THEN r ELSE rangeIssns(r.links, Tail(issnsSplit))

\* The outcome of a call: the string returned, or the run-time panic.
Returns(str) == [called |-> TRUE, panic |-> FALSE, val |-> str]
Panics == [called |-> TRUE, panic |-> TRUE, val |-> <<>>]
NotCalled == [called |-> FALSE, panic |-> FALSE, val |-> <<>>]

makeSherpaLink(str) ==
    IF str = <<>> THEN Returns(<<>>)
    ELSE LET r == rangeIssns(<<>>, Split(str, ","))
         IN  IF r.panic THEN Panics ELSE Returns(Join(r.links, ","))

\* The strings makeSherpaLink is called on: up to MaxSegs comma-separated
\* segments, each of up to MaxSegLen characters: digits, but for at most
\* one hyphen.
Segment(len, hyphenAt) == [i \in 1..len |-> IF i = hyphenAt THEN "-" ELSE "1"]

Segments == {Segment(len, h) : len \in 0..MaxSegLen, h \in 0..MaxSegLen}

IssnInputs == {Join(segs, ",") : segs \in SeqsUpTo(Segments, MaxSegs)}

CallMakeSherpaLink ==
    /\ ~link.called
    /\ link' = makeSherpaLink(issns)
    /\ UNCHANGED <<pipelineVars, attVars, issns, relink, again>>

\* makeSherpaLink applied to the string it returned
CallOnResult ==
    /\ link.called /\ ~link.panic
    /\ ~relink.called
    /\ relink' = makeSherpaLink(link.val)
    /\ UNCHANGED <<pipelineVars, attVars, issns, link, again>>

\* a second call on the same argument
CallAgain ==
    /\ link.called
    /\ ~again.called
    /\ again' = makeSherpaLink(issns)
    /\ UNCHANGED <<pipelineVars, attVars, issns, link, relink>>

\* ------------------------------------- processOutput: the attachments
\* var attachmentTypeToWeightMap; a type that is no key of the map has the
\* zero value of int
attachmentTypeToWeight(type) ==
    CASE type = "missing"             -> 0
      [] type = "other"               -> 1
      [] type = "submittedManuscript" -> 2
      [] type = "acceptedManuscript"  -> 3
      [] type = "finalVersion"        -> 4
      [] OTHER                        -> 0

\* attachment.open_access and attachment.type as the export gives them
OpenAccessValues == {"true", "false", "True"}

AttachmentTypes ==
    {"missing", "other", "submittedManuscript", "acceptedManuscript",
     "finalVersion", "dataset"}

Attachments == [OpenAccess : OpenAccessValues, Type : AttachmentTypes]

\* The test of the loop with >= for >: the last attachment of the highest
\* weight is kept.
HigherLevelOrEqual(type, level) ==
    attachmentTypeToWeight(type) >= attachmentTypeToWeight(level)

\* attachmentTypeToWeightMap[attachment.Type] > attachmentTypeToWeightMap[highestLevel]
HigherLevel(type, level) ==
    attachmentTypeToWeight(type) > attachmentTypeToWeight(level)

\* artudisOA := false; highestLevel := "missing" for the record received
ReceiveAttachments ==
    /\ ai = 0 /\ highestLevel = "unset"
    /\ artudisOA' = FALSE
    /\ highestLevel' = "missing"
    /\ UNCHANGED <<pipelineVars, linkVars, attachment, ai>>

\* One pass of "for _, attachment := range record.Attachment"
RangeAttachment ==
    /\ highestLevel # "unset"
    /\ ai < Len(attachment)
    /\ ai' = ai + 1
    /\ IF attachment[ai + 1].OpenAccess = "true"
       THEN /\ artudisOA' = TRUE
            /\ highestLevel' =
                  IF HigherLevel(attachment[ai + 1].Type, highestLevel)
                  THEN attachment[ai + 1].Type
                  ELSE highestLevel
       ELSE UNCHANGED <<artudisOA, highestLevel>>
    /\ UNCHANGED <<pipelineVars, linkVars, attachment>>

\* ------------------------------------------------------------ specification
InitPipeline ==
    /\ fileIdx = 1
    /\ mainpc = "main"
    /\ waitgroupFiles = 0
    /\ linesRead = 0
    /\ scanErr = "nil"
    /\ ticketToHTTP = NoChan
    /\ output = "none"
    /\ waitgroupLines = 0
    /\ waitgroupOutput = 0
    /\ units = <<>>
    /\ wpc = "none"
    /\ wrec = NoRecord
    /\ wi = 0
    /\ wErr = FALSE
    /\ stdout = <<>>

\* No record is in the writer's hands.
InitNoAttachment ==
    /\ attachment = <<>>
    /\ ai = 0
    /\ artudisOA = FALSE
    /\ highestLevel = "unset"

Init ==
    /\ rev \in Revisions
    /\ httplimit \in 1..MaxN
    /\ files \in UNION {[1..n -> BOOLEAN] : n \in 1..MaxFiles}
    /\ InitPipeline
    /\ InitNoAttachment
    /\ issns = <<>>
    /\ link = NotCalled
    /\ relink = NotCalled
    /\ again = NotCalled

UnitIds == 1..MaxLines

Next ==
    \/ CallProcessFile
    \/ OpenFile
    \/ \E line \in LineInputs, size \in LineSizes : ScanLine(line, size)
    \/ \E stop \in {"eof", "ioerr", "toolong"}, size \in LineSizes : ScanStops(stop, size)
    \/ CloseChannels
    \/ ProcessFileReturns
    \/ MainReturns
    \/ \E u \in UnitIds : Unmarshal(u)
    \/ \E u \in UnitIds : AcquireTicket(u)
    \/ \E u \in UnitIds, net \in NetOutcomes : APIRequestReturns(u, net)
    \/ \E u \in UnitIds : Publish(u)
    \/ \E fails \in BOOLEAN : WriteHeader(fails)
    \/ \E fails \in BOOLEAN : WriteRow(fails)
    \/ \E fails \in BOOLEAN : RangeEnds(fails)

Spec == Init /\ [][Next]_vars

\* The Go scheduler runs every goroutine that can run, and every http.Get
\* returns.
Fairness ==
    /\ WF_vars(CallProcessFile) /\ WF_vars(OpenFile)
    /\ WF_vars(\E stop \in {"eof", "ioerr", "toolong"}, size \in LineSizes :
                   ScanStops(stop, size))
    /\ WF_vars(CloseChannels) /\ WF_vars(ProcessFileReturns)
    /\ WF_vars(MainReturns)
    /\ \A u \in UnitIds :
          /\ WF_vars(Unmarshal(u)) /\ WF_vars(AcquireTicket(u))
          /\ WF_vars(\E net \in NetOutcomes : APIRequestReturns(u, net))
          /\ WF_vars(Publish(u))
    /\ WF_vars(\E fails \in BOOLEAN : WriteHeader(fails))
    /\ WF_vars(\E fails \in BOOLEAN : WriteRow(fails))
    /\ WF_vars(\E fails \in BOOLEAN : RangeEnds(fails))

FairSpec == Spec /\ Fairness

\* makeSherpaLink on its own: a pure function of its argument.
InitLink ==
    /\ rev = "part_001"
    /\ httplimit = 1
    /\ files = <<TRUE>>
    /\ InitPipeline
    /\ InitNoAttachment
    /\ issns \in IssnInputs
    /\ link = NotCalled
    /\ relink = NotCalled
    /\ again = NotCalled

NextLink ==
    \/ CallMakeSherpaLink
    \/ CallOnResult
    \/ CallAgain

SpecLink == InitLink /\ [][NextLink]_vars

\* The writer's loop over the attachments of one record, on its own.
InitAttachment ==
    /\ rev \in Revisions
    /\ httplimit = 1
    /\ files = <<TRUE>>
    /\ InitPipeline
    /\ issns = <<>>
    /\ link = NotCalled
    /\ relink = NotCalled
    /\ again = NotCalled
    /\ attachment \in SeqsUpTo(Attachments, MaxAtt)
    /\ ai = 0
    /\ artudisOA = FALSE
    /\ highestLevel = "unset"

NextAttachment ==
    \/ ReceiveAttachments
    \/ RangeAttachment

SpecAttachment == InitAttachment /\ [][NextAttachment]_vars

\* ------------------------------------------------------------------ claims
\* Lookups that have received a ticket and not yet sent it back.
InFlight == {u \in DOMAIN units : units[u].pc = "get"}

\* Every APIResponse a doAPIRequest call has returned and that is still held
\* by a processPublication goroutine or by the writer.
Elems(seq) == {seq[k] : k \in DOMAIN seq}

HeldResponses ==
    UNION {Elems(units[u].APIResponses) : u \in DOMAIN units}
        \cup Elems(wrec.APIResponses)

\* processFile has done all it does before it returns.
FileComplete == mainpc = "waitOutput" /\ wpc = "done"

\* Positions in stdout of the data rows of line l of file f.
RowsOf(f, l) ==
    {i \in 1..Len(stdout) :
        stdout[i].kind = "data" /\ stdout[i].file = f /\ stdout[i].line = l}

\* C1: at every instant the number of lookups that hold a ticket is at most
\* *httplimit; with *httplimit = 1 no two lookups are in flight together.
C1_Ceiling == Cardinality(InFlight) <= httplimit

\* C1 witness: the ceiling is reached while another lookup waits for a ticket.
C1_Witness ==
    /\ Cardinality(InFlight) = httplimit
    /\ \E u \in DOMAIN units : units[u].pc = "acquire"

\* C2: the tickets in the channel are within 0..*httplimit, tickets in the
\* channel plus tickets held make *httplimit, and once every goroutine of
\* the file has returned the channel holds *httplimit tickets again.
C2_TicketsConserved ==
    ticketToHTTP.made =>
        /\ ticketToHTTP.len \in 0..httplimit
        /\ ticketToHTTP.len + Cardinality(InFlight) = httplimit
        /\ (/\ mainpc \in {"waitLines", "waitOutput"}
            /\ \A u \in DOMAIN units : units[u].pc = "done")
               => ticketToHTTP.len = httplimit

\* C2 witness: every goroutine has returned, the last record published went
\* through a transport error and a decode error, and the channel is full.
C2_Witness ==
    /\ mainpc = "waitLines"
    /\ Len(units) = MaxLines
    /\ \A u \in DOMAIN units : units[u].pc = "done"
    /\ Len(wrec.APIResponses) = 2
    /\ wrec.APIResponses[1].GETError # ""
    /\ wrec.APIResponses[2].JSONDecodeError # ""
    /\ ticketToHTTP.len = httplimit

\* C3: when processFile completes and no write failed, each line that parsed
\* has as many data rows as it has identifiers of scheme "doi".
C3_RowsPerRecord ==
    (FileComplete /\ ~wErr) =>
        \A l \in DOMAIN units :
            units[l].json =>
                Cardinality(RowsOf(fileIdx, l)) = DoiCount(units[l].ids)

\* C3 witness: a completed file with a record of two DOIs, whose lookups
\* failed in two ways, and a parsed record of no DOI.
C3_Witness ==
    /\ FileComplete /\ ~wErr
    /\ Len(wrec.APIResponses) = 2
    /\ wrec.APIResponses[1].JSONDecodeError # ""
    /\ wrec.APIResponses[2].GETError # ""
    /\ Cardinality(RowsOf(fileIdx, wrec.line)) = 2
    /\ \E l \in DOMAIN units :
          units[l].json /\ DoiCount(units[l].ids) = 0 /\ units[l].ids # <<>>

\* C4: a line that does not parse never waits for a ticket, never holds a
\* response, is never published and has no row; waitgroupLines counts the
\* goroutines that have not returned; and when processFile completes with no
\* failed write the data rows of the file are those of its good lines.
C4_BadLineDropped ==
    /\ \A u \in DOMAIN units :
          ~units[u].json =>
              /\ units[u].pc \in {"start", "done"}
              /\ units[u].APIResponses = <<>>
              /\ wrec.line # u
              /\ RowsOf(fileIdx, u) = {}
    /\ waitgroupLines = Cardinality({u \in DOMAIN units : units[u].pc # "done"})
    /\ (FileComplete /\ ~wErr) =>
          \A i \in 1..Len(stdout) :
              (stdout[i].kind = "data" /\ stdout[i].file = fileIdx) =>
                  /\ stdout[i].line \in DOMAIN units
                  /\ units[stdout[i].line].json
                  /\ stdout[i].idx \in 1..DoiCount(units[stdout[i].line].ids)
                  /\ \A j \in 1..Len(stdout) : stdout[j] = stdout[i] => j = i
    /\ (FileComplete /\ ~wErr) =>
          \A l \in DOMAIN units, k \in 1..MaxIds :
              (units[l].json /\ k <= DoiCount(units[l].ids)) =>
                  \E i \in 1..Len(stdout) : stdout[i] = DataRow(fileIdx, l, k)

\* C4 witness: a file whose first line does not parse and whose second line
\* has two DOIs has completed, with both rows of the second line written.
C4_Witness ==
    /\ FileComplete /\ ~wErr
    /\ Len(units) = 2
    /\ ~units[1].json
    /\ units[2].json /\ DoiCount(units[2].ids) = 2
    /\ Cardinality(RowsOf(fileIdx, 2)) = 2

\* C5: as long as no write has failed, the run never ends short of the last
\* file: either main has returned after the last file or some goroutine can
\* take a step.
C5_RunsToTheEnd == ~wErr => (mainpc = "exit" \/ ENABLED Next)

\* Under FairSpec, a run in which no write fails ends with main's return or
\* with the log.Fatalln of processFile: nothing else keeps it from the end.
TerminatesUnlessAborted == <>(wErr \/ mainpc \in {"exit", "fatal"})

\* C6: after a failed write the run is not stuck either: the goroutines of
\* the file can go on until processFile returns and main moves on.
C6_GoesOnAfterWriteFailure == wErr => (mainpc = "exit" \/ ENABLED Next)

\* What doAPIRequest has received when it returns a decode error.
DecodeFailures == {net \in NetOutcomes : net.getErr = "" /\ net.decErr # ""}

\* C7: a returned APIResponse has at most one of GETError and JSONDecodeError
\* set; with GETError set the status, the body and the decode error are
\* empty; with JSONDecodeError set the status is the one received.
C7_OneErrorAtMost ==
    \A r \in HeldResponses :
        /\ r.GETError = "" \/ r.JSONDecodeError = ""
        /\ r.GETError # "" =>
              r.HTTPStatus = "" /\ r.Body = "zero" /\ r.JSONDecodeError = ""
        /\ r.JSONDecodeError # "" =>
              /\ r.GETError = ""
              /\ \E net \in DecodeFailures :
                    net.decErr = r.JSONDecodeError /\ net.status = r.HTTPStatus

\* C7 witness: a record holds a response with a transport error and one with
\* a decode error.
C7_Witness ==
    /\ \E r \in HeldResponses : r.GETError # ""
    /\ \E r \in HeldResponses : r.JSONDecodeError # "" /\ r.HTTPStatus = "404 Not Found"

\* C8, one step: when os.Open fails, processFile returns to main's loop,
\* which is at the next file, with waitgroupFiles back at zero, and nothing
\* of the pipeline is made and nothing written.
SkipsUnopenable ==
    (mainpc = "open" /\ ~files[fileIdx]) =>
        /\ mainpc' = "main"
        /\ fileIdx' = fileIdx + 1
        /\ waitgroupFiles' = 0
        /\ UNCHANGED <<ticketToHTTP, output, units, wpc, wrec, waitgroupLines,
                       waitgroupOutput, stdout>>

\* C8, every state: a file that does not open has no channel, goroutine,
\* writer or row, and main's loop goes on to the file after it, or returns.
NothingForUnopenable ==
    /\ (mainpc = "open" /\ ~files[fileIdx]) =>
          /\ ticketToHTTP = NoChan /\ output = "none"
          /\ units = <<>> /\ wpc = "none"
    /\ \A i \in 1..Len(stdout) : files[stdout[i].file]
    /\ (mainpc = "main" /\ fileIdx <= Len(files)) => ENABLED CallProcessFile
    /\ (mainpc = "main" /\ fileIdx > Len(files)) => ENABLED MainReturns

\* C8: a file that cannot be opened is skipped and the batch goes on.
C8_UnopenableSkipped == []NothingForUnopenable /\ [][SkipsUnopenable]_vars

\* C8 witness: the first file did not open, the second was processed and has
\* a data row, and main has returned.
C8_Witness ==
    /\ mainpc = "exit"
    /\ files = <<FALSE, TRUE>>
    /\ \E i \in 1..Len(stdout) : stdout[i].kind = "data" /\ stdout[i].file = 2

\* The link of one ISSN, as the tests of makeSherpaLink give it.
IsHyphenated(seg) == Len(seg) = 9 /\ seg[5] = "-"

IsBare(seg) == Len(seg) = 8

ExpectedLink(seg) ==
    IF IsHyphenated(seg) THEN SHERPAURI \o seg \o <<"/">>
    ELSE SHERPAURI \o SubSeq(seg, 1, 4) \o <<"-">> \o SubSeq(seg, 5, 8) \o <<"/">>

\* C9: makeSherpaLink("") = "", and on a comma-joined list of segments that
\* are 9 characters with "-" at index 4 or 8 characters, it returns the
\* comma-joined links of the segments, one for each and in the same order.
C9_LinkPerSegment ==
    link.called =>
        /\ issns = <<>> => link = Returns(<<>>)
        /\ (/\ issns # <<>>
            /\ \A k \in 1..Len(Split(issns, ",")) :
                  IsHyphenated(Split(issns, ",")[k]) \/ IsBare(Split(issns, ",")[k]))
           => /\ ~link.panic
              /\ Len(Split(link.val, ",")) = Len(Split(issns, ","))
              /\ \A k \in 1..Len(Split(issns, ",")) :
                    Split(link.val, ",")[k] = ExpectedLink(Split(issns, ",")[k])

\* C9 witness: the call was made on a bare ISSN followed by a hyphenated one
\* and returned two links.
C9_Witness ==
    /\ link.called
    /\ Len(Split(issns, ",")) = 2
    /\ IsBare(Split(issns, ",")[1])
    /\ IsHyphenated(Split(issns, ",")[2])
    /\ Len(Split(link.val, ",")) = 2

\* C10 as claimed: makeSherpaLink(makeSherpaLink(x)) = makeSherpaLink(x), and
\* a second call on x returns what the first returned.
C10_Idempotent ==
    /\ relink.called => relink = link
    /\ again.called => again = link

\* C10 as amended: a second call on x returns what the first returned, and
\* changes nothing else; makeSherpaLink applied to a string it returned
\* returns "", which is that string only if that string is "".
C10_PureNotIdempotent ==
    /\ again.called => again = link
    /\ relink.called => relink = Returns(<<>>)
    /\ (relink.called /\ link.val # <<>>) => relink # link

\* C10 witness: makeSherpaLink returned two links and was called on them.
C10_Witness ==
    /\ relink.called /\ again.called
    /\ Len(Split(link.val, ",")) = 2
    /\ Len(link.val) = 2 * (Len(SHERPAURI) + 10) + 1

\* The open-access attachments, by position.
OpenOnes == {k \in 1..Len(attachment) : attachment[k].OpenAccess = "true"}

\* The highest weight among the open-access attachments.
TopWeight ==
    CHOOSE w \in 0..4 :
        /\ \E k \in OpenOnes : attachmentTypeToWeight(attachment[k].Type) = w
        /\ \A k \in OpenOnes : attachmentTypeToWeight(attachment[k].Type) <= w

\* The first open-access attachment of the highest weight.
FirstTop ==
    Min({k \in OpenOnes : attachmentTypeToWeight(attachment[k].Type) = TopWeight})

LoopOver == highestLevel # "unset" /\ ai = Len(attachment)

\* C11 as claimed: after the loop artudisOA is true iff some attachment has
\* open_access "true"; highestLevel is "missing" iff none has; otherwise it
\* is the type of the first open-access attachment of the highest rank.
C11_BestLocalVersion ==
    LoopOver =>
        /\ artudisOA = (OpenOnes # {})
        /\ (highestLevel = "missing") = (OpenOnes = {})
        /\ OpenOnes # {} => highestLevel = attachment[FirstTop].Type

\* C11 as amended: artudisOA as claimed; highestLevel is "missing" iff no
\* open-access attachment has a type that ranks above "missing" (a type off
\* the scale ranks with "missing"); otherwise it is the type of the first
\* open-access attachment of the highest rank.
C11_BestRankedVersion ==
    LoopOver =>
        /\ artudisOA = (OpenOnes # {})
        /\ (highestLevel = "missing") = (OpenOnes = {} \/ TopWeight = 0)
        /\ (OpenOnes # {} /\ TopWeight > 0) =>
              highestLevel = attachment[FirstTop].Type

\* C11 witness: the loop is over two open-access attachments, the first of a
\* type off the scale, and one attachment marked "True".
C11_Witness ==
    /\ LoopOver
    /\ Len(attachment) = 2
    /\ attachment[1].OpenAccess = "true" /\ attachment[1].Type = "dataset"
    /\ attachment[2].OpenAccess = "true" /\ attachment[2].Type = "acceptedManuscript"
    /\ highestLevel = "acceptedManuscript"

AllReturned == \A u \in DOMAIN units : units[u].pc = "done"

\* C12: the output channel and the ticket channel are closed only when every
\* goroutine of a line has returned: once either is closed, no goroutine is
\* left that could send on output, or send to or receive from ticketToHTTP.
C12_ClosedAfterUnits ==
    (output = "closed" \/ ticketToHTTP.closed) =>
        /\ AllReturned
        /\ waitgroupLines = 0
        /\ ticketToHTTP.len = ticketToHTTP.cap

\* C12 witness: both channels are closed after two goroutines, both with a
\* lookup, have returned.
C12_Witness ==
    /\ output = "closed" /\ ticketToHTTP.closed
    /\ Len(units) = 2
    /\ \A u \in DOMAIN units : units[u].json /\ DoiCount(units[u].ids) > 0
    /\ AllReturned

\* The goroutine of line u sends its record in this step.
Sends(u) ==
    /\ u \in DOMAIN units /\ u \in DOMAIN units'
    /\ units[u].pc = "publish" /\ units'[u].pc = "done"

\* A record sent is received by the writer in the same step, when the writer
\* is at its receive with nothing left to write of the record before; the
\* record in the writer's hands changes in no other way while the file is
\* processed; a goroutine that has returned sends nothing more.
ReceivedOnce ==
    /\ \A u \in DOMAIN units :
          Sends(u) =>
              /\ wpc = "range"
              /\ wrec'.line = u
              /\ wrec'.APIResponses = units[u].APIResponses
              /\ \A v \in DOMAIN units \ {u} : ~Sends(v)
    /\ wrec' # wrec =>
          \/ \E u \in DOMAIN units : Sends(u)
          \/ wpc = "done" /\ wrec' = NoRecord
    /\ \A u \in DOMAIN units :
          (units[u].pc = "done" /\ u \in DOMAIN units') => units'[u].pc = "done"

\* The writer returns without a failed write only on the closed channel,
\* when every goroutine has returned.
WriterEndsDrained ==
    (wpc # "done" /\ wpc' = "done" /\ ~wErr') =>
        /\ output = "closed"
        /\ AllReturned

\* C13: without a write failure every record sent on output is received by
\* the writer exactly once, and the writer returns only when the channel is
\* closed and every record sent has been received.
C13_ReceivedOnce == [][ReceivedOnce /\ WriterEndsDrained]_vars

\* C13 witness: the writer has returned without a failure after it received
\* the records of two lines, the one of the second line first.
C13_Witness ==
    /\ wpc = "done" /\ ~wErr
    /\ Len(units) = 2
    /\ \A u \in DOMAIN units : units[u].json
    /\ wrec.line = 1
    /\ \E k \in 1..Len(stdout) : stdout[k].kind = "data" /\ stdout[k].line = 2

\* The positions of the identifiers of scheme "doi" before position i, in
\* the order of the record.
DoisBefore(ids, i) ==
    LET S == {j \in 1..Len(ids) : j < i /\ ids[j] = "doi"}
    IN  [k \in 1..Cardinality(S) |->
            CHOOSE j \in S : Cardinality({m \in S : m < j}) = k - 1]

\* The identifiers the responses came from, in the order of the responses.
CallsOf(rs) == [k \in 1..Len(rs) |-> rs[k].call]

\* C14: the lookups of one record go one after the other in the order of its
\* identifiers: a goroutine waiting for a ticket or holding one is at a "doi"
\* identifier, and the lookups of all the "doi" identifiers before it, and of
\* no other, have returned (and given their ticket back), in that order; so
\* a record never has two lookups under way.
C14_OneLookupAtATime ==
    \A u \in DOMAIN units :
        units[u].pc \in {"acquire", "get"} =>
            /\ units[u].i \in 1..Len(units[u].ids)
            /\ units[u].ids[units[u].i] = "doi"
            /\ CallsOf(units[u].APIResponses) = DoisBefore(units[u].ids, units[u].i)

\* C14 witness: a goroutine holds the ticket of its second lookup, the first
\* one has returned, and the ticket channel has one ticket in all.
C14_Witness ==
    \E u \in DOMAIN units :
        /\ units[u].pc = "get"
        /\ units[u].i = 2
        /\ Len(units[u].APIResponses) = 1
        /\ ticketToHTTP.cap = 1 /\ ticketToHTTP.len = 0

\* A goroutine at "output <- record" has parsed its line and holds one
\* response for each "doi" identifier, in the order of the identifiers; so
\* does the record the writer holds.
PublishesWhole ==
    /\ \A u \in DOMAIN units :
          units[u].pc = "publish" =>
              /\ units[u].json
              /\ CallsOf(units[u].APIResponses) =
                     DoisBefore(units[u].ids, Len(units[u].ids) + 1)
    /\ CallsOf(wrec.APIResponses) = DoisBefore(wrec.ids, Len(wrec.ids) + 1)

\* A goroutine returns either from the failed json.Unmarshal, and nothing is
\* sent, or from the send of its whole record; and it returns once.
ReturnsBySending ==
    \A u \in DOMAIN units :
        /\ (units[u].pc # "done" /\ u \in DOMAIN units' /\ units'[u].pc = "done") =>
              IF units[u].json
              THEN /\ units[u].pc = "publish"
                   /\ wrec'.line = u
                   /\ wrec'.ids = units[u].ids
                   /\ wrec'.APIResponses = units[u].APIResponses
              ELSE /\ units[u].pc = "start"
                   /\ wrec' = wrec
        /\ (units[u].pc = "done" /\ u \in DOMAIN units') => units'[u].pc = "done"

\* C15: a goroutine sends at most once, and only if its line parsed; it
\* sends after all the lookups of the record have returned, and the record
\* sent has one response for each "doi" identifier, in the order of the
\* identifiers (none for a record without a "doi" identifier).
C15_PublishesOnceWhole == []PublishesWhole /\ [][ReturnsBySending]_vars

\* C15 witness: the writer holds a record of two "doi" identifiers with its
\* two responses, and the goroutine of a record without a "doi" identifier
\* is at its send.
C15_Witness ==
    /\ DoiCount(wrec.ids) = 2 /\ Len(wrec.APIResponses) = 2
    /\ \E u \in DOMAIN units :
          /\ units[u].pc = "publish"
          /\ units[u].json /\ DoiCount(units[u].ids) = 0

\* The rows of one record stand together in stdout, in the order of its
\* APIResponses: the row of the k-th response comes right after the row of
\* the (k-1)-th, and the row of the first response is the first row of the
\* record.
RowsTogether ==
    \A p \in 1..Len(stdout) :
        stdout[p].kind = "data" =>
            IF stdout[p].idx > 1
            THEN /\ p > 1
                 /\ stdout[p - 1] = [stdout[p] EXCEPT !.idx = @ - 1]
            ELSE \A q \in 1..(p - 1) :
                    ~(/\ stdout[q].kind = "data"
                      /\ stdout[q].file = stdout[p].file
                      /\ stdout[q].line = stdout[p].line)

\* A row is written for the record the writer received last, for the
\* response its loop is at: records come out in the order they were received.
RowOfRecordInHand ==
    stdout' # stdout =>
        /\ Len(stdout') = Len(stdout) + 1
        /\ SubSeq(stdout', 1, Len(stdout)) = stdout
        /\ LET row == stdout'[Len(stdout')]
           IN  row.kind = "data" =>
                  /\ row.file = fileIdx
                  /\ row.line = wrec.line
                  /\ row.idx = wi
                  /\ wi \in 1..Len(wrec.APIResponses)

\* C16: the rows of one record are contiguous and in the order of the
\* record's APIResponses; the records follow one another in the order the
\* writer received them, whatever the order of the lines.
C16_RowsInOrder == []RowsTogether /\ [][RowOfRecordInHand]_vars

\* C16 witness: the two rows of the record of line 2 stand before the row of
\* the record of line 1.
C16_Witness ==
    /\ Len(stdout) = 4
    /\ stdout[2].kind = "data" /\ stdout[2].line = 2 /\ stdout[2].idx = 1
    /\ stdout[3].kind = "data" /\ stdout[3].line = 2 /\ stdout[3].idx = 2
    /\ stdout[4].kind = "data" /\ stdout[4].line = 1

\* C17: every line gets its goroutine whatever its length: the scanner never
\* stops at a line because the line is too long for its buffer, so no line
\* is left out, the lines after it are read, and the run is not aborted.
C17_EveryLineDispatched == scanErr # "toolong"

\* C18: a response returned with a decode error has the zero body.
C18_ZeroBodyOnDecodeError ==
    \A r \in HeldResponses : r.JSONDecodeError # "" => r.Body = "zero"

\* C19: whatever the number of input files, the header row is the first row
\* of stdout and stands there once; every other row is a data row.
C19_OneHeaderFirst ==
    \A p \in 1..Len(stdout) : (stdout[p].kind = "header") = (p = 1)

\* The goroutines at "output <- record".
AtPublish == {u \in DOMAIN units : units[u].pc = "publish"}

\* C20: a goroutine at "output <- record" holds no ticket: the tickets out of
\* the channel are those of the goroutines inside a lookup, and a goroutine
\* that waits for a ticket and cannot have one is kept waiting by as many
\* lookups under way as there are tickets, never by goroutines that wait to
\* send.
C20_NoTicketWhilePublishing ==
    /\ AtPublish # {} =>
          ticketToHTTP.cap - ticketToHTTP.len = Cardinality(InFlight)
    /\ \A u \in DOMAIN units :
          (Alive /\ units[u].pc = "acquire") =>
              \/ ENABLED AcquireTicket(u)
              \/ Cardinality(InFlight) = ticketToHTTP.cap

\* C20 witness: before the writer is started, a goroutine waits at its send
\* with a response, and another one is in a lookup with the only ticket.
C20_Witness ==
    /\ mainpc = "scan" /\ wpc = "none"
    /\ ticketToHTTP.cap = 1
    /\ \E u \in AtPublish : Len(units[u].APIResponses) > 0
    /\ InFlight # {}

\* C21: makeSherpaLink is total: whatever the string it is called on, also
\* one with a non-empty segment shorter than 5 characters, it returns a
\* string and does not fault on an index out of range.
C21_Total == link.called => ~link.panic

====
